---- MODULE Spec2Model ----
(***************************************************************************)
(* A model of the `starter` terminal dashboard: the supervisor of child    *)
(* processes (src/src/process.rs), the dashboard loop (src/src/tui.rs),    *)
(* the configuration bound (src/src/config.rs) and main (src/src/main.rs). *)
(*                                                                         *)
(* Concurrency: main (which runs run_tui inline), one session task per     *)
(* configured process, and two line-reader tasks per spawned child run on  *)
(* a multi-threaded runtime; every action below is one step of one of      *)
(* them, or of the environment (a child exits or forks).  The unix build   *)
(* of spawn_child / stop_child is the one modelled.                        *)
(***************************************************************************)
EXTENDS Integers, Sequences, FiniteSets, TLC

(* ---------------- bounds of the model ---------------- *)

\* Events the environment produces in one run: key presses, lines written by
\* children, and exits and forks of processes by themselves.  A run with a
\* single session is explored two events further.
MaxEvents == 3
\* Capacity of the output channel in the model (100 at process.rs:54).
OutCapacity == 2
\* Capacity of the command inbox in the model (10 at process.rs:55).
CmdCapacity == 2
\* Largest pane area height a layout yields.
MaxHeight == 5
\* Lines of a pane buffer that are recorded when a child writes without end.
MaxRecorded == 2

(* ---------------- program constants ---------------- *)

MIN_PROCESSES == 1
MAX_PROCESSES == 6
U16 == 65536
BORDER_ROWS == 2

None == 0

Streams == {"stdout", "stderr"}

VARIABLES
    pc,             \* position of main / run_tui
    tuiResult,      \* what run_tui returned: "none", "ok", "err"
    nconfig,        \* config.processes.len()
    spawnOk,        \* per descriptor: its command can be spawned
    rawMode, altScreen, cursorHidden,            \* the terminal
    names,          \* channels[i].0, the descriptor each session was built from
    buffers, running, scroll_offsets,            \* run_tui's pane state
    layout,         \* area heights of the current iteration's layout
    drainIdx,       \* pane index of update_buffers_and_scroll's for loop
    key,            \* the event read by handle_input_event
    eventsLeft,     \* events the environment may still produce
    task,           \* per session: state of its tokio task
    inbox,          \* per session: the command channel's queue
    child, child_pgid,                           \* spawn_reader's locals
    spawned,        \* per session: children spawned so far (the last pid)
    procs,          \* per session: live processes, <<pgid, kind>>
    chan,           \* per session: the output channel's queue
    readers,        \* per session: line-reader tasks
    lost,           \* per session (history): a command the loop issued to
                    \* it was refused by the inbox
    longPane        \* the pane of the scroll arithmetic's specification

termVars == <<rawMode, altScreen, cursorHidden>>
paneVars == <<buffers, running, scroll_offsets>>
uiVars   == <<layout, drainIdx, key>>
sessVars == <<task, inbox, child, child_pgid, spawned>>
outVars  == <<chan, readers>>
vars == <<pc, tuiResult, nconfig, spawnOk, lost, longPane, termVars, names, paneVars, uiVars,
          sessVars, procs, outVars, eventsLeft>>

Sessions == DOMAIN task
Panes == DOMAIN running

(* ---------------- helpers ---------------- *)

AsU16(x) == x % U16

SaturatingSub(a, b) == IF a > b THEN a - b ELSE 0

\* No pane is set up for the scroll arithmetic's specification.
NoPane == [len |-> 0, offset |-> 0, height |-> 0, last |-> "none"]

\* tx.try_send(cmd) returns Err: the receiver is gone or the queue is full.
Refused(q, alive) == ~(alive /\ Len(q) < CmdCapacity)

\* No key event is being handled.
NoKey == [kind |-> "none", digit |-> 0]

\* Positions of main after run_tui has returned.
AfterTui == {"stop_all", "stop_all_sleep", "drop", "drop_sleep", "exit", "done"}

\* The output receivers live in `channels`, which run_tui owns and drops on return.
RxOpen == pc \notin AfterTui

\* The command senders: `channels` (dropped when run_tui returns) and
\* manager.control_senders (dropped after Drop::drop has run).
CmdSendersOpen == pc \notin {"exit", "done"}

\* Mutant: a sent command overtakes the commands already queued.
TrySendFront(q, alive, cmd) ==
    IF alive /\ Len(q) < CmdCapacity THEN <<cmd>> \o q ELSE q

\* Mutant: a command sent to a full inbox is queued all the same.
TrySendUnbounded(q, alive, cmd) == IF alive THEN Append(q, cmd) ELSE q

\* tx.try_send(cmd) on a session's inbox: queued when the receiver is alive
\* and the queue has room, otherwise the error is discarded (`let _ =`).
TrySend(q, alive, cmd) ==
    IF alive /\ Len(q) < CmdCapacity THEN Append(q, cmd) ELSE q

(* ---------------- configuration and start-up ---------------- *)

\* The descriptor counts explored: one and two descriptors, and the two
\* rejected neighbours of the accepted range.
ConfigLens == {MIN_PROCESSES - 1, 1, 2, MAX_PROCESSES + 1}

\* Mutant: the lower bound is not checked.
ConfigAcceptsEmpty(n) == ~(n > MAX_PROCESSES)

\* load_config's bound check.
ConfigAccepted(n) == ~(n < MIN_PROCESSES \/ n > MAX_PROCESSES)

EventBudget(n) == IF n = 1 THEN MaxEvents + 2 ELSE MaxEvents

Init ==
    /\ pc = "load_config"
    /\ tuiResult = "none"
    /\ nconfig \in ConfigLens
    /\ spawnOk \in [1 .. (IF ConfigAccepted(nconfig) THEN nconfig ELSE 0) -> BOOLEAN]
    /\ rawMode = FALSE /\ altScreen = FALSE /\ cursorHidden = FALSE
    /\ names = << >>
    /\ buffers = << >> /\ running = << >> /\ scroll_offsets = << >>
    /\ layout = << >> /\ drainIdx = 0
    /\ key = NoKey
    /\ eventsLeft = EventBudget(nconfig)
    /\ task = << >> /\ inbox = << >> /\ child = << >> /\ child_pgid = << >>
    /\ spawned = << >> /\ procs = << >>
    /\ chan = << >> /\ readers = << >>
    /\ lost = << >>
    /\ longPane = NoPane

\* main: load_config(..).expect(..); a rejected configuration ends the program.
LoadConfig ==
    /\ pc = "load_config"
    /\ pc' = IF ConfigAccepted(nconfig) THEN "spawn_process" ELSE "config_error"
    /\ UNCHANGED <<eventsLeft, tuiResult, nconfig, spawnOk, lost, longPane, termVars, names, paneVars,
                   uiVars, sessVars, procs, outVars>>

\* Mutant: the sessions are collected in reverse order.
SessionNamesReversed(n) == [i \in 1 .. n |-> n + 1 - i]

\* The name each session carries, in the order of the for loop's pushes.
SessionNames(n) == [i \in 1 .. n |-> i]

\* spawn_process: one pair of channels and one session task per descriptor;
\* no child is started here.
SpawnProcess ==
    /\ pc = "spawn_process"
    /\ names' = SessionNames(nconfig)
    /\ task' = [i \in 1 .. nconfig |-> "running"]
    /\ inbox' = [i \in 1 .. nconfig |-> << >>]
    /\ child' = [i \in 1 .. nconfig |-> None]
    /\ child_pgid' = [i \in 1 .. nconfig |-> None]
    /\ spawned' = [i \in 1 .. nconfig |-> 0]
    /\ procs' = [i \in 1 .. nconfig |-> {}]
    /\ chan' = [i \in 1 .. nconfig |-> << >>]
    /\ readers' = [i \in 1 .. nconfig |-> {}]
    /\ lost' = [i \in 1 .. nconfig |-> FALSE]
    /\ pc' = "enable_raw"
    /\ UNCHANGED <<eventsLeft, tuiResult, nconfig, spawnOk, longPane, termVars, paneVars, uiVars>>

(* ---------------- run_tui: set-up ---------------- *)

\* run_tui returns: its locals are dropped, the pane state and `channels`
\* (with the output receivers, and what their queues held) among them.
DropTuiLocals ==
    /\ buffers' = << >> /\ running' = << >> /\ scroll_offsets' = << >>
    /\ layout' = << >> /\ drainIdx' = 0 /\ key' = NoKey
    /\ chan' = [i \in Sessions |-> << >>]

\* run_tui returns Err through a `?`: its locals are dropped (the Terminal's
\* drop shows a hidden cursor), nothing else is undone; main's `?` then
\* returns, which drops the manager.
TuiReturnsErr ==
    /\ tuiResult' = "err"
    /\ cursorHidden' = FALSE
    /\ DropTuiLocals
    /\ pc' = "drop"

EnableRaw ==
    /\ pc = "enable_raw"
    /\ rawMode' = TRUE
    /\ pc' = "enter_alt"
    /\ UNCHANGED <<eventsLeft, tuiResult, nconfig, spawnOk, lost, longPane, altScreen, cursorHidden, names,
                   paneVars, uiVars, sessVars, procs, outVars>>

EnableRawFails ==
    /\ pc = "enable_raw"
    /\ TuiReturnsErr
    /\ UNCHANGED <<eventsLeft, nconfig, spawnOk, lost, longPane, rawMode, altScreen, names,
                   sessVars, procs, readers>>

EnterAlt ==
    /\ pc = "enter_alt"
    /\ altScreen' = TRUE
    /\ pc' = "init"
    /\ UNCHANGED <<eventsLeft, tuiResult, nconfig, spawnOk, lost, longPane, rawMode, cursorHidden, names,
                   paneVars, uiVars, sessVars, procs, outVars>>

EnterAltFails ==
    /\ pc = "enter_alt"
    /\ TuiReturnsErr
    /\ UNCHANGED <<eventsLeft, nconfig, spawnOk, lost, longPane, rawMode, altScreen, names,
                   sessVars, procs, readers>>

\* The pane state, one entry per channel, and the initial Start to every session.
InitPanes ==
    /\ pc = "init"
    /\ buffers' = [i \in 1 .. Len(names) |-> << >>]
    /\ running' = [i \in 1 .. Len(names) |-> TRUE]
    /\ scroll_offsets' = [i \in 1 .. Len(names) |-> 0]
    /\ inbox' = [i \in Sessions |->
                    TrySend(inbox[i], task[i] = "running", "Start")]
    /\ lost' = [i \in Sessions |->
                    lost[i] \/ Refused(inbox[i], task[i] = "running")]
    /\ pc' = "layout"
    /\ UNCHANGED <<eventsLeft, tuiResult, nconfig, spawnOk, longPane, termVars, names, uiVars,
                   task, child, child_pgid, spawned, procs, outVars>>

(* ---------------- run_tui: the loop ---------------- *)

\* Area heights get_layout may yield: equal shares of the terminal, whose size
\* is read anew in every iteration (a resize shows up as a different height).
Heights == {1, 3, MaxHeight}

\* get_layout: n equal regions.
GetLayout(n, h) == [i \in 1 .. n |-> h]

Layout ==
    /\ pc = "layout"
    /\ \E h \in Heights : layout' = GetLayout(Len(names), h)
    /\ drainIdx' = 1
    /\ pc' = "drain"
    /\ UNCHANGED <<eventsLeft, tuiResult, nconfig, spawnOk, lost, longPane, termVars, names, paneVars,
                   key, sessVars, procs, outVars>>

\* layout.get(i).map(|a| a.height.saturating_sub(2)).unwrap_or(0)
VisibleHeight(lay, i) ==
    IF i \in DOMAIN lay THEN SaturatingSub(lay[i], BORDER_ROWS) ELSE 0

\* Mutant: the subtraction is made without its guard.
AutoscrollUnguarded(offset, len, visible_height) ==
    AsU16(len) - visible_height

\* Mutant: the offset is pinned as soon as the buffer fills the pane.
AutoscrollAtFill(offset, len, visible_height) ==
    IF AsU16(len) >= visible_height /\ visible_height > 0
    THEN AsU16(len) - visible_height
    ELSE offset

\* The offset after one line was pushed: buffer_len is the length as u16.
Autoscroll(offset, len, visible_height) ==
    LET buffer_len == AsU16(len)
    IN  IF buffer_len > visible_height /\ visible_height > 0
        THEN buffer_len - visible_height
        ELSE offset

\* update_buffers_and_scroll, one rx.try_recv() of pane drainIdx: a line is
\* pushed and the offset recomputed; on Err the for loop moves to the next
\* pane, and past the last pane the function returns.
DrainLine ==
    /\ pc = "drain"
    /\ drainIdx \in Panes
    /\ chan[drainIdx] # << >>
    /\ LET i == drainIdx
           newbuf == Append(buffers[i], Head(chan[i]))
       IN  /\ buffers' = [buffers EXCEPT ![i] = newbuf]
           /\ chan' = [chan EXCEPT ![i] = Tail(chan[i])]
           /\ scroll_offsets' =
                [scroll_offsets EXCEPT ![i] =
                    Autoscroll(scroll_offsets[i], Len(newbuf),
                               VisibleHeight(layout, i))]
    /\ UNCHANGED <<eventsLeft, pc, tuiResult, nconfig, spawnOk, lost, longPane, termVars, names, running,
                   uiVars, sessVars, procs, readers>>

DrainNext ==
    /\ pc = "drain"
    /\ drainIdx \in Panes => chan[drainIdx] = << >>
    /\ IF drainIdx < Len(running)
       THEN /\ drainIdx' = drainIdx + 1
            /\ UNCHANGED <<pc, layout>>
       ELSE /\ drainIdx' = 0
            /\ layout' = << >>
            /\ pc' = "draw"
    /\ UNCHANGED <<eventsLeft, tuiResult, nconfig, spawnOk, lost, longPane, termVars, names, paneVars,
                   key, sessVars, procs, outVars>>

\* terminal.draw: the frame is drawn with the cursor hidden.
Draw ==
    /\ pc = "draw"
    /\ cursorHidden' = TRUE
    /\ pc' = "poll"
    /\ UNCHANGED <<eventsLeft, tuiResult, nconfig, spawnOk, lost, longPane, rawMode, altScreen, names,
                   paneVars, uiVars, sessVars, procs, outVars>>

DrawFails ==
    /\ pc = "draw"
    /\ TuiReturnsErr
    /\ UNCHANGED <<eventsLeft, nconfig, spawnOk, lost, longPane, rawMode, altScreen, names,
                   sessVars, procs, readers>>

\* The key events: q, the digits 1..9, Up, Down and any other key.
Keys ==
    {[kind |-> k, digit |-> 0] : k \in {"q", "up", "down", "other"}}
        \cup {[kind |-> "digit", digit |-> d] : d \in 1 .. 9}

\* The keys the environment presses: the digits of the panes and the first
\* digit past them stand for all digits.
Pressed ==
    {k \in Keys : k.kind = "digit" => k.digit <= Len(running) + 1}

\* handle_input_event: event::poll timed out, or the event is no key event.
PollTimeout ==
    /\ pc = "poll"
    /\ pc' = "layout"
    /\ UNCHANGED <<eventsLeft, tuiResult, nconfig, spawnOk, lost, longPane, termVars, names, paneVars,
                   uiVars, sessVars, procs, outVars>>

\* handle_input_event: event::poll and event::read deliver a key event.
PollKey ==
    /\ pc = "poll"
    /\ eventsLeft > 0
    /\ \E k \in Pressed : key' = k
    /\ eventsLeft' = eventsLeft - 1
    /\ pc' = "handle"
    /\ UNCHANGED <<tuiResult, nconfig, spawnOk, lost, longPane, termVars, names, paneVars,
                   layout, drainIdx, sessVars, procs, outVars>>

PollFails ==
    /\ pc = "poll"
    /\ TuiReturnsErr
    /\ UNCHANGED <<eventsLeft, nconfig, spawnOk, lost, longPane, rawMode, altScreen, names,
                   sessVars, procs, readers>>

\* The guard of the digit arm: c >= '1' && (c - '1') < running.len().
DigitInRange(d, n) == d >= 1 /\ d - 1 < n

\* Mutant: every toggle sends Start.
ToggleCmdAlwaysStart(flag) == "Start"

\* Mutant: the command of the flag before the flip.
ToggleCmdInverted(flag) == IF flag THEN "Stop" ELSE "Start"

\* The command a toggle sends, from the flag after the flip.
ToggleCmd(flag) == IF flag THEN "Start" ELSE "Stop"

\* Mutant: Up decrements without the guard.
ScrollUpUnguarded(offset) == offset - 1

\* Up: if *offset > 0 { *offset -= 1 }
ScrollUp(offset) == IF offset > 0 THEN offset - 1 ELSE offset

\* Mutant: Down increments without the clamp.
ScrollDownUnclamped(offset, len) == offset + 1

\* Down: max_offset = len.saturating_sub(1) as u16; if *offset < max_offset { += 1 }
ScrollDown(offset, len) ==
    LET max_offset == AsU16(SaturatingSub(len, 1))
    IN  IF offset < max_offset THEN offset + 1 ELSE offset

\* Mutant: a toggle's command goes to every session.
SendToAll(ib, idx, alive, cmd) ==
    [j \in DOMAIN ib |-> TrySend(ib[j], alive, cmd)]

\* The inboxes after try_send on the sender of channels[idx] alone.
SendTo(ib, idx, alive, cmd) ==
    [ib EXCEPT ![idx] = TrySend(ib[idx], alive, cmd)]

HandleQuit ==
    /\ pc = "handle"
    /\ key.kind = "q"
    /\ key' = NoKey
    /\ pc' = "restore"
    /\ UNCHANGED <<eventsLeft, tuiResult, nconfig, spawnOk, lost, longPane, termVars, names, paneVars,
                   layout, drainIdx, sessVars, procs, outVars>>

HandleDigit ==
    /\ pc = "handle"
    /\ key.kind = "digit"
    /\ IF DigitInRange(key.digit, Len(running))
       THEN LET idx == key.digit
                flag == ~running[idx]
            IN  /\ running' = [running EXCEPT ![idx] = flag]
                /\ inbox' = SendTo(inbox, idx, task[idx] = "running",
                                    ToggleCmd(flag))
                /\ lost' = [lost EXCEPT ![idx] =
                                lost[idx] \/ Refused(inbox[idx], task[idx] = "running")]
       ELSE UNCHANGED <<running, inbox, lost>>
    /\ key' = NoKey
    /\ pc' = "layout"
    /\ UNCHANGED <<eventsLeft, tuiResult, nconfig, spawnOk, longPane, termVars, names, buffers,
                   scroll_offsets, layout, drainIdx, task, child,
                   child_pgid, spawned, procs, outVars>>

HandleUp ==
    /\ pc = "handle"
    /\ key.kind = "up"
    /\ scroll_offsets' = [i \in Panes |-> ScrollUp(scroll_offsets[i])]
    /\ key' = NoKey
    /\ pc' = "layout"
    /\ UNCHANGED <<eventsLeft, tuiResult, nconfig, spawnOk, lost, longPane, termVars, names, buffers,
                   running, layout, drainIdx, sessVars, procs, outVars>>

HandleDown ==
    /\ pc = "handle"
    /\ key.kind = "down"
    /\ scroll_offsets' =
         [i \in Panes |-> ScrollDown(scroll_offsets[i], Len(buffers[i]))]
    /\ key' = NoKey
    /\ pc' = "layout"
    /\ UNCHANGED <<eventsLeft, tuiResult, nconfig, spawnOk, lost, longPane, termVars, names, buffers,
                   running, layout, drainIdx, sessVars, procs, outVars>>

HandleOther ==
    /\ pc = "handle"
    /\ key.kind = "other"
    /\ key' = NoKey
    /\ pc' = "layout"
    /\ UNCHANGED <<eventsLeft, tuiResult, nconfig, spawnOk, lost, longPane, termVars, names, paneVars,
                   layout, drainIdx, sessVars, procs, outVars>>

\* After the loop: disable_raw_mode, LeaveAlternateScreen, show_cursor, Ok(()).
Restore ==
    /\ pc = "restore"
    /\ rawMode' = FALSE
    /\ altScreen' = FALSE
    /\ cursorHidden' = FALSE
    /\ tuiResult' = "ok"
    /\ pc' = "stop_all"
    /\ DropTuiLocals
    /\ UNCHANGED <<eventsLeft, nconfig, spawnOk, lost, longPane, names, sessVars, procs, readers>>

(* ---------------- the session task (spawn_reader) ---------------- *)

\* Mutant: Start spawns whether or not a child handle is held.
StartSpawnsAlways(c) == TRUE

\* Start spawns only when there is no child handle: child.is_none().
StartSpawns(c) == c = None

\* The processes left alive by killpg(pgid, SIGKILL).
KillGroup(P, pgid) == {p \in P : p[1] # pgid}

\* Mutant: stop_child kills the direct child only, not its group.
StopChildOnly(P, c, pgid) == IF c # None THEN P \ {<<c, "child">>} ELSE P

\* stop_child on the process table: with a handle, the recorded group is
\* killed (when a group id is recorded), then the direct child; c.kill()
\* returns once the child has exited.
StopChildProcs(P, c, pgid) ==
    IF c # None
    THEN (IF pgid # None THEN KillGroup(P, pgid) ELSE P) \ {<<c, "child">>}
    ELSE P

\* Mutant: stop_child leaves the handle in place.
StopChildHandleKept(c) == c

\* stop_child on the handle and on the group id: both are taken.
StopChildHandle(c) == None

StopChildPgid(c, pgid) == IF c # None THEN None ELSE pgid

\* spawn_output_readers: one reader task per captured stream of child pid.
NewReaders(pid) ==
    {[pid |-> pid, stream |-> s, st |-> "read", n |-> 0] : s \in Streams}

\* Mutant: the panic of one session task takes every session task down.
PanickedAll(t, i) == [j \in DOMAIN t |-> "panicked"]

\* The tasks after session i's task panicked: the runtime catches the panic
\* of a spawned task, which ends that task alone.
Panicked(t, i) == [t EXCEPT ![i] = "panicked"]

\* cmd_rx.recv() yields Start.
SessionStart(i) ==
    /\ task[i] = "running"
    /\ inbox[i] # << >>
    /\ Head(inbox[i]) = "Start"
    /\ IF ~StartSpawns(child[i])
       THEN /\ inbox' = [inbox EXCEPT ![i] = Tail(inbox[i])]
            /\ UNCHANGED <<task, child, child_pgid, spawned, procs, readers>>
       ELSE IF spawnOk[i]
       THEN LET pid == spawned[i] + 1
            IN  /\ inbox' = [inbox EXCEPT ![i] = Tail(inbox[i])]
                /\ spawned' = [spawned EXCEPT ![i] = pid]
                /\ procs' = [procs EXCEPT ![i] = procs[i] \cup {<<pid, "child">>}]
                /\ child' = [child EXCEPT ![i] = pid]
                /\ child_pgid' = [child_pgid EXCEPT ![i] = pid]
                /\ readers' = [readers EXCEPT ![i] = readers[i] \cup NewReaders(pid)]
                /\ UNCHANGED task
       ELSE \* .expect("Failed to start process") panics: the task ends and
            \* its locals, the command receiver among them, are dropped.
            /\ task' = Panicked(task, i)
            /\ inbox' = [inbox EXCEPT ![i] = << >>]
            /\ UNCHANGED <<child, child_pgid, spawned, procs, readers>>
    /\ UNCHANGED <<eventsLeft, pc, tuiResult, nconfig, spawnOk, lost, longPane, termVars, names, paneVars,
                   uiVars, chan>>

\* cmd_rx.recv() yields Stop.
SessionStop(i) ==
    /\ task[i] = "running"
    /\ inbox[i] # << >>
    /\ Head(inbox[i]) = "Stop"
    /\ inbox' = [inbox EXCEPT ![i] = Tail(inbox[i])]
    /\ procs' = [procs EXCEPT ![i] = StopChildProcs(procs[i], child[i], child_pgid[i])]
    /\ child_pgid' = [child_pgid EXCEPT ![i] = StopChildPgid(child[i], child_pgid[i])]
    /\ child' = [child EXCEPT ![i] = StopChildHandle(child[i])]
    /\ UNCHANGED <<eventsLeft, pc, tuiResult, nconfig, spawnOk, lost, longPane, termVars, names, paneVars,
                   uiVars, task, spawned, outVars>>

\* cmd_rx.recv() yields None (every sender dropped, queue empty): the loop
\* ends, stop_child runs once more and the task finishes.
SessionEnd(i) ==
    /\ task[i] = "running"
    /\ inbox[i] = << >>
    /\ ~CmdSendersOpen
    /\ procs' = [procs EXCEPT ![i] = StopChildProcs(procs[i], child[i], child_pgid[i])]
    /\ child_pgid' = [child_pgid EXCEPT ![i] = StopChildPgid(child[i], child_pgid[i])]
    /\ child' = [child EXCEPT ![i] = StopChildHandle(child[i])]
    /\ task' = [task EXCEPT ![i] = "ended"]
    /\ UNCHANGED <<eventsLeft, pc, tuiResult, nconfig, spawnOk, lost, longPane, termVars, names, paneVars,
                   uiVars, inbox, spawned, outVars>>

(* ---------------- child processes (the environment) ---------------- *)

\* A process of session i exits by itself.
ProcExit(i) ==
    /\ \E p \in procs[i] : procs' = [procs EXCEPT ![i] = procs[i] \ {p}]
    /\ eventsLeft > 0 /\ eventsLeft' = eventsLeft - 1
    /\ UNCHANGED <<pc, tuiResult, nconfig, spawnOk, lost, longPane, termVars, names, paneVars,
                   uiVars, sessVars, outVars>>

\* A child forks a descendant, which stays in the child's process group and
\* inherits its stdout and stderr.
ProcFork(i) ==
    /\ \E p \in procs[i] :
          /\ p[2] = "child"
          /\ <<p[1], "desc">> \notin procs[i]
          /\ procs' = [procs EXCEPT ![i] = procs[i] \cup {<<p[1], "desc">>}]
    /\ eventsLeft > 0 /\ eventsLeft' = eventsLeft - 1
    /\ UNCHANGED <<pc, tuiResult, nconfig, spawnOk, lost, longPane, termVars, names, paneVars,
                   uiVars, sessVars, outVars>>

(* ---------------- line readers (handle_output_owned) ---------------- *)

\* Some process still holds the write end of child pid's pipes.
StreamOpen(P, pid) == \E p \in P : p[1] = pid

\* The text a reader forwards: the n-th line of a stream of child pid.
LineOf(r) == <<r.pid, r.stream, r.n>>

\* reader.read_line completes a line.
ReaderRead(i) ==
    /\ \E r \in readers[i] :
          /\ r.st = "read"
          /\ StreamOpen(procs[i], r.pid)
          /\ readers' = [readers EXCEPT ![i] =
                (readers[i] \ {r}) \cup {[r EXCEPT !.st = "send", !.n = r.n + 1]}]
    /\ eventsLeft > 0 /\ eventsLeft' = eventsLeft - 1
    /\ UNCHANGED <<pc, tuiResult, nconfig, spawnOk, lost, longPane, termVars, names, paneVars,
                   uiVars, sessVars, procs, chan>>

\* reader.read_line returns 0 (end of stream): the reader task finishes.
ReaderEof(i) ==
    /\ \E r \in readers[i] :
          /\ r.st = "read"
          /\ ~StreamOpen(procs[i], r.pid)
          /\ readers' = [readers EXCEPT ![i] = readers[i] \ {r}]
    /\ UNCHANGED <<eventsLeft, pc, tuiResult, nconfig, spawnOk, lost, longPane, termVars, names, paneVars,
                   uiVars, sessVars, procs, chan>>

\* Mutant: the send never waits for room.
SendNeverWaits(q, open) == TRUE

\* tx.send(line).await can complete: there is room, or the receiver is gone
\* (then it returns Err, which is discarded with the line).
SendReady(q, open) == ~open \/ Len(q) < OutCapacity

\* The queue after tx.send(line).await completed.
SendLine(q, open, line) == IF open THEN Append(q, line) ELSE q

ReaderSend(i) ==
    /\ \E r \in readers[i] :
          /\ r.st = "send"
          /\ SendReady(chan[i], RxOpen)
          /\ chan' = [chan EXCEPT ![i] = SendLine(chan[i], RxOpen, LineOf(r))]
          /\ readers' = [readers EXCEPT ![i] =
                (readers[i] \ {r}) \cup {[r EXCEPT !.st = "read"]}]
    /\ UNCHANGED <<eventsLeft, pc, tuiResult, nconfig, spawnOk, lost, longPane, termVars, names, paneVars,
                   uiVars, sessVars, procs>>

(* ---------------- teardown ---------------- *)

\* The loop of stop_all and of Drop::drop: try_send(Stop) to every session.
BroadcastStop ==
    [i \in Sessions |-> TrySend(inbox[i], task[i] = "running", "Stop")]

\* manager.stop_all(): the sends.
StopAll ==
    /\ pc = "stop_all"
    /\ inbox' = BroadcastStop
    /\ pc' = "stop_all_sleep"
    /\ UNCHANGED <<eventsLeft, tuiResult, nconfig, spawnOk, lost, longPane, termVars, names, paneVars,
                   uiVars, task, child, child_pgid, spawned, procs, outVars>>

\* manager.stop_all(): the 200 ms sleep; main returns Ok, the manager is dropped.
StopAllSleep ==
    /\ pc = "stop_all_sleep"
    /\ pc' = "drop"
    /\ UNCHANGED <<eventsLeft, tuiResult, nconfig, spawnOk, lost, longPane, termVars, names, paneVars,
                   uiVars, sessVars, procs, outVars>>

\* Drop for ProcessManager: the sends.
DropSend ==
    /\ pc = "drop"
    /\ inbox' = BroadcastStop
    /\ pc' = "drop_sleep"
    /\ UNCHANGED <<eventsLeft, tuiResult, nconfig, spawnOk, lost, longPane, termVars, names, paneVars,
                   uiVars, task, child, child_pgid, spawned, procs, outVars>>

\* Drop for ProcessManager: the 200 ms sleep; then control_senders is dropped
\* and main has returned.
DropSleep ==
    /\ pc = "drop_sleep"
    /\ pc' = "exit"
    /\ UNCHANGED <<eventsLeft, tuiResult, nconfig, spawnOk, lost, longPane, termVars, names, paneVars,
                   uiVars, sessVars, procs, outVars>>

\* #[tokio::main]: main's future has completed and the runtime is shut down;
\* tasks still alive are dropped where they wait.  A dropped child handle
\* does not kill its process.
RuntimeShutdown ==
    /\ pc = "exit"
    /\ pc' = "done"
    /\ task' = [i \in Sessions |-> IF task[i] = "running" THEN "aborted" ELSE task[i]]
    /\ child' = [i \in Sessions |-> None]
    /\ child_pgid' = [i \in Sessions |-> None]
    /\ inbox' = [i \in Sessions |-> << >>]
    /\ readers' = [i \in Sessions |-> {}]
    /\ UNCHANGED <<eventsLeft, tuiResult, nconfig, spawnOk, lost, longPane, termVars, names, paneVars,
                   uiVars, spawned, procs, chan>>

(* ---------------- specifications ---------------- *)

\* Every step but the two sleeps of the teardown.
Steps ==
    \/ LoadConfig \/ SpawnProcess
    \/ EnableRaw \/ EnableRawFails \/ EnterAlt \/ EnterAltFails \/ InitPanes
    \/ Layout \/ DrainLine \/ DrainNext \/ Draw \/ DrawFails
    \/ PollTimeout \/ PollKey \/ PollFails
    \/ HandleQuit \/ HandleDigit \/ HandleUp \/ HandleDown \/ HandleOther
    \/ Restore \/ StopAll \/ DropSend \/ RuntimeShutdown
    \/ \E i \in Sessions : SessionStart(i)
    \/ \E i \in Sessions : SessionStop(i)
    \/ \E i \in Sessions : SessionEnd(i)
    \/ \E i \in Sessions : ProcExit(i)
    \/ \E i \in Sessions : ProcFork(i)
    \/ \E i \in Sessions : ReaderRead(i)
    \/ \E i \in Sessions : ReaderEof(i)
    \/ \E i \in Sessions : ReaderSend(i)

Next == Steps \/ StopAllSleep \/ DropSleep

\* No assumption on timing: a sleep may end however far the tasks have got.
Spec == Init /\ [][Next]_vars

\* Every session task has emptied its inbox (or is gone).
Quiescent == \A i \in Sessions : task[i] = "running" => inbox[i] = << >>

\* The sleeps, ending only once the sessions are quiescent.
StopAllGrace == Quiescent /\ StopAllSleep

DropGrace == Quiescent /\ DropSleep

NextGrace == Steps \/ StopAllGrace \/ DropGrace

\* The grace periods suffice: a 200 ms sleep ends only after every session
\* has processed all the commands queued for it.
SpecGrace == Init /\ [][NextGrace]_vars

\* The runtime's scheduler runs a session task that has a command to
\* receive: under favourable timing, no session with a waiting Start is
\* left unscheduled forever.
SpecLive ==
    SpecGrace /\ \A i \in 1 .. MAX_PROCESSES : WF_vars(i \in Sessions /\ SessionStart(i))

(* ---------------- a child that writes without end ---------------- *)

\* reader.read_line completes a line of a child that writes the same line
\* again and again (as `yes` does): the environment's budget does not limit
\* it, and every line has the text of the first.
FloodRead(i) ==
    /\ \E r \in readers[i] :
          /\ r.st = "read"
          /\ StreamOpen(procs[i], r.pid)
          /\ readers' = [readers EXCEPT ![i] =
                (readers[i] \ {r}) \cup {[r EXCEPT !.st = "send", !.n = 1]}]
    /\ UNCHANGED <<eventsLeft, pc, tuiResult, nconfig, spawnOk, lost, longPane, termVars, names,
                   paneVars, uiVars, sessVars, procs, chan>>

\* DrainLine, with the pane buffer recorded up to MaxRecorded lines: lines
\* pushed past them leave the recorded buffer as it is.
FloodDrainLine ==
    /\ pc = "drain"
    /\ drainIdx \in Panes
    /\ chan[drainIdx] # << >>
    /\ LET i == drainIdx
           newbuf == IF Len(buffers[i]) < MaxRecorded
                     THEN Append(buffers[i], Head(chan[i]))
                     ELSE buffers[i]
       IN  /\ buffers' = [buffers EXCEPT ![i] = newbuf]
           /\ chan' = [chan EXCEPT ![i] = Tail(chan[i])]
           /\ scroll_offsets' =
                [scroll_offsets EXCEPT ![i] =
                    Autoscroll(scroll_offsets[i], Len(newbuf),
                               VisibleHeight(layout, i))]
    /\ UNCHANGED <<eventsLeft, pc, tuiResult, nconfig, spawnOk, lost, longPane, termVars, names, running,
                   uiVars, sessVars, procs, readers>>

\* One process whose command can be spawned, and one more event (a key, an
\* exit or a fork) besides the lines.
InitFlood ==
    /\ pc = "load_config"
    /\ tuiResult = "none"
    /\ nconfig = 1
    /\ spawnOk = [i \in 1 .. 1 |-> TRUE]
    /\ rawMode = FALSE /\ altScreen = FALSE /\ cursorHidden = FALSE
    /\ names = << >>
    /\ buffers = << >> /\ running = << >> /\ scroll_offsets = << >>
    /\ layout = << >> /\ drainIdx = 0
    /\ key = NoKey
    /\ eventsLeft = 1
    /\ task = << >> /\ inbox = << >> /\ child = << >> /\ child_pgid = << >>
    /\ spawned = << >> /\ procs = << >>
    /\ chan = << >> /\ readers = << >>
    /\ lost = << >>
    /\ longPane = NoPane

NextFlood ==
    \/ LoadConfig \/ SpawnProcess
    \/ EnableRaw \/ EnableRawFails \/ EnterAlt \/ EnterAltFails \/ InitPanes
    \/ Layout \/ FloodDrainLine \/ DrainNext \/ Draw \/ DrawFails
    \/ PollTimeout \/ PollKey \/ PollFails
    \/ HandleQuit \/ HandleDigit \/ HandleUp \/ HandleDown \/ HandleOther
    \/ Restore \/ StopAll \/ DropSend \/ RuntimeShutdown
    \/ StopAllSleep \/ DropSleep
    \/ \E i \in Sessions : SessionStart(i)
    \/ \E i \in Sessions : SessionStop(i)
    \/ \E i \in Sessions : SessionEnd(i)
    \/ \E i \in Sessions : ProcExit(i)
    \/ \E i \in Sessions : ProcFork(i)
    \/ \E i \in Sessions : FloodRead(i)
    \/ \E i \in Sessions : ReaderEof(i)
    \/ \E i \in Sessions : ReaderSend(i)

\* The steps of the thread that runs main and run_tui, but for the failures
\* of the terminal and the arrival of a key.
MainThread ==
    \/ LoadConfig \/ SpawnProcess \/ EnableRaw \/ EnterAlt \/ InitPanes
    \/ Layout \/ FloodDrainLine \/ DrainNext \/ Draw \/ PollTimeout
    \/ HandleQuit \/ HandleDigit \/ HandleUp \/ HandleDown \/ HandleOther
    \/ Restore \/ StopAll \/ StopAllSleep \/ DropSend \/ DropSleep
    \/ RuntimeShutdown

\* The steps of the session tasks, and of the reader tasks.
SessionTasks ==
    \E i \in Sessions : SessionStart(i) \/ SessionStop(i) \/ SessionEnd(i)

ReaderTasks ==
    \E i \in Sessions : FloodRead(i) \/ ReaderSend(i) \/ ReaderEof(i)

\* The runtime is multi-threaded: the main thread, the session tasks and the
\* reader tasks each keep taking the steps they can take.
SpecFlood ==
    /\ InitFlood /\ [][NextFlood]_vars
    /\ WF_vars(MainThread) /\ WF_vars(SessionTasks) /\ WF_vars(ReaderTasks)

(* ---------------- the scroll arithmetic on a long buffer ---------------- *)

\* Buffer lengths (usize) around the values at which `as u16` wraps.
ScrollLens == {0, 1, 2, U16 - 2, U16 - 1, U16, U16 + 1, 2 * U16 - 1, 2 * U16}

\* Scroll offsets (u16) at both ends of the type.
ScrollOffsets == {0, 1, U16 - 2, U16 - 1}

\* Pane area heights (u16).
ScrollHeights == {0, BORDER_ROWS, 3, MaxHeight, U16 - 1}

\* The variables of the program proper, which this specification leaves alone.
progVars ==
    <<pc, tuiResult, nconfig, spawnOk, lost, termVars, names, paneVars, uiVars,
      sessVars, procs, outVars>>

\* One pane with a buffer of any of the lengths and an offset the keys and
\* the drain can have left: at most the last line's index.
InitScroll ==
    /\ pc = "load_config"
    /\ tuiResult = "none"
    /\ nconfig = 1
    /\ spawnOk = [i \in 1 .. 1 |-> TRUE]
    /\ rawMode = FALSE /\ altScreen = FALSE /\ cursorHidden = FALSE
    /\ names = << >>
    /\ buffers = << >> /\ running = << >> /\ scroll_offsets = << >>
    /\ layout = << >> /\ drainIdx = 0
    /\ key = NoKey
    /\ eventsLeft = MaxEvents
    /\ task = << >> /\ inbox = << >> /\ child = << >> /\ child_pgid = << >>
    /\ spawned = << >> /\ procs = << >>
    /\ chan = << >> /\ readers = << >>
    /\ lost = << >>
    /\ \E l \in ScrollLens, o \in ScrollOffsets, h \in ScrollHeights :
          /\ o <= SaturatingSub(l, 1)
          /\ longPane = [len |-> l, offset |-> o, height |-> h, last |-> "none"]

\* update_buffers_and_scroll pushes one line to the pane.
LongPush ==
    /\ eventsLeft > 0 /\ eventsLeft' = eventsLeft - 1
    /\ longPane' =
          [longPane EXCEPT
              !.len = longPane.len + 1,
              !.offset = Autoscroll(longPane.offset, longPane.len + 1,
                                    VisibleHeight(GetLayout(1, longPane.height), 1)),
              !.last = "push"]
    /\ UNCHANGED progVars

\* handle_input_event: Up.
LongUp ==
    /\ eventsLeft > 0 /\ eventsLeft' = eventsLeft - 1
    /\ longPane' = [longPane EXCEPT !.offset = ScrollUp(longPane.offset),
                                    !.last = "up"]
    /\ UNCHANGED progVars

\* handle_input_event: Down.
LongDown ==
    /\ eventsLeft > 0 /\ eventsLeft' = eventsLeft - 1
    /\ longPane' = [longPane EXCEPT
                        !.offset = ScrollDown(longPane.offset, longPane.len),
                        !.last = "down"]
    /\ UNCHANGED progVars

\* get_layout yields another height (the terminal was resized).
LongResize ==
    /\ eventsLeft > 0 /\ eventsLeft' = eventsLeft - 1
    /\ \E h \in ScrollHeights \ {longPane.height} :
          longPane' = [longPane EXCEPT !.height = h, !.last = "resize"]
    /\ UNCHANGED progVars

NextScroll == LongPush \/ LongUp \/ LongDown \/ LongResize

SpecScroll == InitScroll /\ [][NextScroll]_vars

(* ---------------- properties ---------------- *)

\* The live direct children of session i.
LiveChildren(i) == {p \in procs[i] : p[2] = "child"}

\* This step is session i taking a command cmd from its inbox.
Processes(i, cmd) ==
    /\ pc' = pc
    /\ task[i] = "running"
    /\ inbox[i] # << >>
    /\ Head(inbox[i]) = cmd
    /\ inbox'[i] = Tail(inbox[i])

C1_OneChild == \A i \in Sessions : Cardinality(LiveChildren(i)) <= 1

C1_StartWhileRunning ==
    \A i \in Sessions :
        (Processes(i, "Start") /\ child[i] # None) =>
            /\ child'[i] = child[i]
            /\ child_pgid'[i] = child_pgid[i]
            /\ spawned'[i] = spawned[i]
            /\ procs'[i] = procs[i]
            /\ readers'[i] = readers[i]

\* C1: a session never has more than one live child process, and a Start
\* processed while the session holds a child handle spawns nothing and
\* leaves the handle, the process-group id and the process table unchanged.
C1_AtMostOneChild == []C1_OneChild /\ [][C1_StartWhileRunning]_vars

\* A Start is at the head of the inbox of a session that holds a live child.
C1_Witness ==
    \E i \in Sessions :
        /\ task[i] = "running"
        /\ inbox[i] # << >> /\ Head(inbox[i]) = "Start"
        /\ child[i] # None
        /\ <<child[i], "child">> \in procs[i]

C2_StopKills ==
    \A i \in Sessions :
        (Processes(i, "Stop") /\ child[i] # None) =>
            /\ child'[i] = None
            /\ child_pgid'[i] = None
            /\ <<child[i], "child">> \notin procs'[i]
            /\ child_pgid[i] # None =>
                  \A p \in procs'[i] : p[1] # child_pgid[i]

\* A session task that holds no child handle has no live process left.
C2_IdleHasNoProcess ==
    \A i \in Sessions :
        (task[i] = "running" /\ child[i] = None) =>
            (child_pgid[i] = None /\ procs[i] = {})

\* C2: a Stop processed while the session holds a child discards the handle
\* and the group id and kills the direct child and every process of the
\* recorded group; an idle session has no live child or group member.
C2_StopKillsGroup == [][C2_StopKills]_vars /\ []C2_IdleHasNoProcess

\* A Stop is at the head of the inbox of a session whose child and a
\* descendant in the child's group are both alive.
C2_Witness ==
    \E i \in Sessions :
        /\ task[i] = "running"
        /\ inbox[i] # << >> /\ Head(inbox[i]) = "Stop"
        /\ child[i] # None /\ child_pgid[i] = child[i]
        /\ {<<child[i], "child">>, <<child[i], "desc">>} \subseteq procs[i]

\* C3 (as claimed): once teardown has finished (the manager's drop has run
\* and main has returned), no session has a live child process.
C3_NoChildAfterTeardown ==
    pc \in {"exit", "done"} => \A i \in Sessions : LiveChildren(i) = {}

\* C4 (as claimed): whenever run_tui has returned, raw mode is disabled, the
\* alternate screen is left and the cursor is shown.
C4_TerminalRestored ==
    pc \in AfterTui => (~rawMode /\ ~altScreen /\ ~cursorHidden)

\* C5: every pane's scroll offset lies in [0, max(0, buffer_length - 1)].
C5_ScrollInRange ==
    \A i \in Panes :
        /\ 0 <= scroll_offsets[i]
        /\ scroll_offsets[i] <= SaturatingSub(Len(buffers[i]), 1)

\* A pane scrolled by keys to its last line, another line still to come.
C5_Witness ==
    \E i \in Panes :
        /\ Len(buffers[i]) >= 2
        /\ scroll_offsets[i] = Len(buffers[i]) - 1
        /\ chan[i] # << >>
        /\ eventsLeft < EventBudget(nconfig) - Len(buffers[i]) - Len(chan[i])

\* This step is the drain pushing one line to pane i.
Pushes(i) ==
    /\ pc = "drain" /\ pc' = "drain"
    /\ drainIdx = i
    /\ i \in Panes
    /\ Len(buffers'[i]) = Len(buffers[i]) + 1

Handles == pc = "handle" /\ pc' # "handle"

\* C7: a digit k within the pane count flips pane k's flag alone and sends
\* one command, Start if the flag became true and Stop otherwise, to session
\* k alone (queued unless that inbox is full or its receiver gone); every
\* other flag and inbox, all offsets, buffers and sessions stay as they are.
\* A digit past the pane count changes nothing.
C7_ToggleMapping ==
    [][\A k \in 1 .. 9 :
          (Handles /\ key = [kind |-> "digit", digit |-> k]) =>
              /\ UNCHANGED <<scroll_offsets, buffers, chan, task, child,
                             child_pgid, procs, readers>>
              /\ IF k <= Len(running)
                 THEN /\ running' = [running EXCEPT ![k] = ~running[k]]
                      /\ \A j \in Sessions \ {k} : inbox'[j] = inbox[j]
                      /\ LET cmd == IF running'[k] THEN "Start" ELSE "Stop"
                         IN  inbox'[k] =
                               IF task[k] = "running" /\ Len(inbox[k]) < CmdCapacity
                               THEN inbox[k] \o <<cmd>>
                               ELSE inbox[k]
                 ELSE UNCHANGED <<running, inbox>>]_vars

\* Two panes, one toggled off with its Stop queued, the other untouched.
C7_Witness ==
    /\ Len(running) = 2
    /\ \E i, j \in Panes :
          /\ i # j
          /\ ~running[i] /\ running[j]
          /\ inbox[i] # << >> /\ inbox[i][Len(inbox[i])] = "Stop"

LoopPcs == {"layout", "drain", "draw", "poll", "handle", "restore"}

\* spawn_process has returned.
Spawned == pc \notin {"load_config", "spawn_process", "config_error"}

C9_Counts ==
    /\ ~Spawned => task = << >>
    /\ Spawned =>
          /\ nconfig \in MIN_PROCESSES .. MAX_PROCESSES
          /\ Len(task) = nconfig /\ Len(inbox) = nconfig /\ Len(chan) = nconfig
          /\ Len(child) = nconfig /\ Len(child_pgid) = nconfig
          /\ names = [i \in 1 .. nconfig |-> i]
    /\ pc \in {"enable_raw", "enter_alt", "init"} =>
          \A i \in Sessions :
              /\ task[i] = "running" /\ inbox[i] = << >>
              /\ child[i] = None /\ child_pgid[i] = None
              /\ spawned[i] = 0 /\ procs[i] = {} /\ readers[i] = {}
    /\ pc \in LoopPcs =>
          /\ Len(running) = nconfig
          /\ Len(buffers) = nconfig
          /\ Len(scroll_offsets) = nconfig

C9_Steps ==
    /\ (pc = "init" /\ pc' = "layout") =>
          \A i \in Sessions : inbox'[i] = <<"Start">> /\ running'[i]
    /\ \A i \in Sessions :
          (Processes(i, "Start") /\ child[i] = None /\ spawnOk[i]) =>
              /\ child'[i] # None
              /\ child_pgid'[i] = child'[i]
              /\ LiveChildren(i)' = LiveChildren(i) \cup {<<child'[i], "child">>}
              /\ task'[i] = "running"

\* The loop has just sent Start to session i, whose command can be spawned.
StartSent(i) == IF i \in Sessions THEN pc = "layout" /\ spawnOk[i] ELSE FALSE

\* Session i has spawned a child.
HasRun(i) == IF i \in Sessions THEN spawned[i] >= 1 ELSE FALSE

\* C9: spawn_process creates one idle session per descriptor, in descriptor
\* order, with no child started; the loop creates one pane per session, with
\* every flag true, and sends Start to every session; a session that
\* processes a Start without a child, its command being spawnable, holds a
\* live child afterwards, and with a spawnable command every session
\* eventually does; the counts never change.
C9_Startup ==
    /\ []C9_Counts
    /\ [][C9_Steps]_vars
    /\ \A i \in 1 .. MAX_PROCESSES :
          StartSent(i) ~> HasRun(i)

\* Two sessions, both running a child after their initial Start, all flags true.
C9_Witness ==
    /\ pc \in LoopPcs
    /\ nconfig = 2
    /\ \A i \in Sessions :
          /\ child[i] # None /\ <<child[i], "child">> \in procs[i]
          /\ inbox[i] = << >> /\ running[i]

\* The lines of child pid's stream s in a sequence of lines, in order.
LinesOf(q, pid, s) == SelectSeq(q, LAMBDA l : l[1] = pid /\ l[2] = s)

\* What pane i's buffer holds, while the pane exists.
PaneBuffer(i) == IF i \in DOMAIN buffers THEN buffers[i] ELSE << >>

\* Every line a reader completed is in the pane buffer or in the channel
\* exactly once, in the order of its stream, but for the line the reader is
\* about to send.
C10_Delivered ==
    RxOpen =>
        \A i \in Sessions :
            LET q == PaneBuffer(i) \o chan[i]
            IN  /\ Len(chan[i]) <= OutCapacity
                /\ \A j \in 1 .. Len(q) : q[j][1] \in 1 .. spawned[i]
                /\ \A pid \in 1 .. spawned[i] : \A s \in Streams :
                      LET sub == LinesOf(q, pid, s)
                      IN  /\ \A j \in 1 .. Len(sub) : sub[j][3] = j
                          /\ \A r \in readers[i] :
                                (r.pid = pid /\ r.stream = s) =>
                                   Len(sub) = r.n - (IF r.st = "send" THEN 1 ELSE 0)

\* While run_tui runs, a pane buffer only grows at its end.
C10_AppendOnly ==
    (pc \in LoopPcs /\ pc' \in LoopPcs) =>
        \A i \in Panes :
            /\ Len(buffers'[i]) >= Len(buffers[i])
            /\ SubSeq(buffers'[i], 1, Len(buffers[i])) = buffers[i]

\* A reader with a line to send sends it only when the channel has room, and
\* then the line is at the channel's end.
C10_ReaderWaits ==
    RxOpen =>
        \A i \in Sessions : \A r \in readers[i] :
            (r.st = "send" /\ r \notin readers'[i]) =>
                /\ Len(chan[i]) < OutCapacity
                /\ chan'[i] = Append(chan[i], LineOf(r))

\* C10: while the loop runs, every completed line reaches the pane buffer
\* exactly once and in the order of its stream, the output channel never
\* holds more than its capacity, a reader facing a full channel keeps its line
\* until there is room, and pane buffers are append-only.
C10_Backpressure ==
    []C10_Delivered /\ [][C10_AppendOnly /\ C10_ReaderWaits]_vars

\* A reader holds a completed line while the channel is full, and the pane
\* buffer already holds a line.
C10_Witness ==
    /\ pc \in LoopPcs
    /\ \E i \in Sessions :
          /\ Len(chan[i]) = OutCapacity
          /\ \E r \in readers[i] : r.st = "send"
          /\ buffers[i] # << >>

\* The handle a session holds after applying cmd to handle c, when the next
\* child would get pid next.
Applied(c, cmd, next) ==
    IF cmd = "Stop" THEN None ELSE IF c = None THEN next ELSE c

\* A step changes session i's inbox only by queueing one command at its end
\* (leaving the session's state alone) or by the session taking the command
\* at its head, and the session's state changes only when it takes the head,
\* to the result of applying that one command; the receiver going away with
\* its task is the only other change.
C11_FifoStep ==
    \A i \in Sessions :
        LET sess == <<child[i], child_pgid[i], spawned[i]>>
            gone == task'[i] # "running"
            sent == /\ Len(inbox[i]) < CmdCapacity
                    /\ \E cmd \in {"Start", "Stop"} : inbox'[i] = Append(inbox[i], cmd)
                    /\ sess' = sess /\ procs'[i] = procs[i]
            took == /\ inbox[i] # << >>
                    /\ inbox'[i] = Tail(inbox[i])
                    /\ child'[i] = Applied(child[i], Head(inbox[i]), spawned[i] + 1)
                    /\ child_pgid'[i] = child'[i]
        IN  /\ inbox'[i] # inbox[i] => (sent \/ took \/ gone)
            /\ sess' # sess => (took \/ gone)

\* C11: the commands of a session are applied in the order they were sent,
\* one at a time: the inbox is a queue that senders extend at its end and
\* the session alone shortens at its head, one command per step, and the
\* session's handle changes only by applying the command taken.
C11_CommandOrder == [][C11_FifoStep]_vars

\* A session that holds a child has Stop, then Start, waiting in its inbox.
C11_Witness ==
    \E i \in Sessions :
        /\ task[i] = "running"
        /\ child[i] # None
        /\ inbox[i] = <<"Stop", "Start">>

\* The loop is about to send a command to session k: the initial Start, or
\* the toggle of digit k.
UiSends(k) ==
    \/ pc = "init"
    \/ pc = "handle" /\ key = [kind |-> "digit", digit |-> k]

C12_FullInboxDrops ==
    \A k \in Sessions :
        (UiSends(k) /\ pc' # pc /\ Len(inbox[k]) = CmdCapacity) =>
            /\ inbox'[k] = inbox[k]
            /\ pc' = "layout"
            /\ UNCHANGED <<task, child, child_pgid, procs>>

\* No inbox holds more than its capacity, and the loop's sending steps can
\* be taken whatever the inboxes hold.
C12_NeverBlocks ==
    /\ \A i \in Sessions : Len(inbox[i]) <= CmdCapacity
    /\ pc = "init" => ENABLED InitPanes
    /\ (pc = "handle" /\ key.kind = "digit") => ENABLED HandleDigit

\* C12: a command the loop sends to a session whose inbox is full is
\* dropped: the inbox is unchanged and the loop goes on to its next
\* iteration; the loop's sends are always able to complete, and no inbox
\* exceeds its capacity.
C12_NonBlockingSend == [][C12_FullInboxDrops]_vars /\ []C12_NeverBlocks

\* A digit toggle is being handled for a session whose inbox is full.
C12_Witness ==
    /\ pc = "handle"
    /\ key.kind = "digit"
    /\ key.digit \in Sessions
    /\ Len(inbox[key.digit]) = CmdCapacity

\* Session i holds the handle of a child that has exited by itself: no
\* process of its group is left and its readers have terminated.
ChildExited(i) ==
    /\ task[i] = "running"
    /\ child[i] # None
    /\ \A p \in procs[i] : p[1] # child[i]
    /\ \A r \in readers[i] : r.pid # child[i]

\* C13 (as claimed): a Start processed after the child has exited by itself
\* spawns a new child.
C13_RestartAfterExit ==
    [][\A i \in Sessions :
          (Processes(i, "Start") /\ ChildExited(i) /\ spawnOk[i]) =>
              /\ spawned'[i] = spawned[i] + 1
              /\ <<child'[i], "child">> \in procs'[i]]_vars

\* What a session consists of.
SessionState(j) ==
    <<task[j], inbox[j], child[j], child_pgid[j], spawned[j], procs[j],
      chan[j], readers[j]>>

\* The step in which session i's spawn fails touches nothing but session i:
\* not another session, not the loop's position, not the panes.
C14_FailureStep ==
    \A i \in Sessions :
        (task[i] = "running" /\ task'[i] = "panicked") =>
            /\ ~spawnOk[i]
            /\ \A j \in Sessions \ {i} : SessionState(j)' = SessionState(j)
            /\ UNCHANGED <<pc, tuiResult, paneVars, uiVars, termVars>>
            /\ child'[i] = None /\ procs'[i] = {} /\ spawned'[i] = 0

\* A session whose spawn failed never ran and never will: it has no child,
\* spawned none, and no command is queued for it any more.
C14_NeverRuns ==
    \A i \in Sessions :
        /\ ~spawnOk[i] => (spawned[i] = 0 /\ child[i] = None /\ procs[i] = {})
        /\ task[i] = "panicked" => (~spawnOk[i] /\ inbox[i] = << >>)

\* The steps of run_tui's loop.
LoopStep ==
    \/ Layout \/ DrainLine \/ DrainNext \/ Draw
    \/ PollTimeout \/ HandleQuit \/ HandleDigit \/ HandleUp \/ HandleDown \/ HandleOther
    \/ Restore

\* Whatever failed elsewhere, a session with a command waiting can take it,
\* a reader with a line and room in its channel can send it, and the loop
\* can take its next step.
C14_OthersGoOn ==
    /\ \A j \in Sessions :
          (task[j] = "running" /\ inbox[j] # << >>) =>
              ENABLED (SessionStart(j) \/ SessionStop(j))
    /\ \A j \in Sessions :
          (RxOpen /\ Len(chan[j]) < OutCapacity /\ \E r \in readers[j] : r.st = "send") =>
              ENABLED ReaderSend(j)
    /\ pc \in LoopPcs => ENABLED LoopStep

\* C14: a failed spawn ends its own session only: that session never holds
\* a child and its Start is not retried; the step of the failure changes no
\* other session, pane or the loop's position, and afterwards the other
\* sessions can still take commands and deliver output and the loop can
\* still step.
C14_SpawnFailureIsolated ==
    [][C14_FailureStep]_vars /\ []C14_NeverRuns /\ []C14_OthersGoOn

\* One session's spawn has failed while the other runs its child, whose
\* output has reached its pane.
C14_Witness ==
    /\ pc \in LoopPcs
    /\ \E i, j \in Sessions :
          /\ task[i] = "panicked"
          /\ task[j] = "running"
          /\ <<child[j], "child">> \in procs[j]
          /\ buffers[j] # << >>

\* What of session j a command of another session must leave alone: its
\* handle, group id, inbox, output channel, processes and readers.
Owned(j) == <<child[j], child_pgid[j], inbox[j], chan[j], procs[j], readers[j]>>

\* This step is session i receiving the command at the head of its inbox.
Takes(i) ==
    /\ pc' = pc
    /\ task[i] = "running"
    /\ inbox[i] # << >>
    /\ inbox'[i] = Tail(inbox[i]) \/ task'[i] = "panicked"

\* C15: the toggle of pane i and the processing of a command by session i
\* change nothing of any other session: its handle, group id, inbox, output
\* channel, live processes and readers stay as they are; so stopping one
\* pane's child leaves the other session's child alive and producing.
C15_Independent ==
    [][\A i \in Sessions :
          ((Handles /\ key = [kind |-> "digit", digit |-> i]) \/ Takes(i)) =>
              \A j \in Sessions \ {i} : Owned(j)' = Owned(j)]_vars

\* Pane 2 was toggled off and its child killed, while session 1's child is
\* alive, its pane holds a line and another line is on its way.
C15_Witness ==
    /\ pc \in LoopPcs
    /\ nconfig = 2
    /\ ~running[2] /\ child[2] = None /\ spawned[2] = 1 /\ procs[2] = {}
    /\ running[1] /\ <<child[1], "child">> \in procs[1]
    /\ buffers[1] # << >> /\ chan[1] # << >>

\* The program has not got past load_config: no session, process, pane or
\* terminal mode exists.
NothingStarted ==
    /\ task = << >> /\ inbox = << >> /\ procs = << >> /\ readers = << >>
    /\ running = << >> /\ buffers = << >>
    /\ ~rawMode /\ ~altScreen
    /\ tuiResult = "none"

C16_Rejected ==
    /\ \A n \in 0 .. MAX_PROCESSES + 2 : ConfigAccepted(n) <=> n \in 1 .. 6
    /\ nconfig \notin 1 .. 6 =>
          /\ pc \in {"load_config", "config_error"}
          /\ NothingStarted
    /\ pc = "config_error" => (nconfig \notin 1 .. 6 /\ ~ENABLED Next)
    /\ pc = "load_config" => (NothingStarted /\ ENABLED LoadConfig)

C16_LoadStep ==
    (pc = "load_config" /\ pc' # pc) =>
        pc' = IF nconfig \in 1 .. 6 THEN "spawn_process" ELSE "config_error"

\* C16: the bound check accepts exactly the counts 1..6; with a count
\* outside 1..6 the program ends at load_config, with no session, process or
\* pane created and the terminal untouched, and takes no further step; with
\* a count within 1..6 it goes on to create the sessions.
C16_ConfigBound == []C16_Rejected /\ [][C16_LoadStep]_vars

\* A configuration of seven descriptors has been rejected.
C16_Witness == pc = "config_error" /\ nconfig = MAX_PROCESSES + 1

\* C17 (as claimed): the drain of every iteration terminates, also while
\* the readers keep refilling the channels: the loop, once in the drain,
\* eventually leaves it.
C17_DrainTerminates == [](pc = "drain" => <>(pc # "drain"))

\* A Stop taken by a session without a handle changes nothing of the
\* session but its inbox; any Stop leaves it without handle and group id.
C18_StopStep ==
    \A i \in Sessions :
        Processes(i, "Stop") =>
            /\ child'[i] = None /\ child_pgid'[i] = None
            /\ child[i] = None =>
                  /\ child_pgid[i] = None
                  /\ procs'[i] = procs[i]
                  /\ UNCHANGED <<task, spawned, readers, chan>>

\* stop_child applied to the state it has produced yields that state again.
C18_StopTwice ==
    \A i \in Sessions :
        LET P1 == StopChildProcs(procs[i], child[i], child_pgid[i])
            c1 == StopChildHandle(child[i])
            g1 == StopChildPgid(child[i], child_pgid[i])
        IN  /\ c1 = None /\ g1 = None
            /\ StopChildProcs(P1, c1, g1) = P1
            /\ StopChildHandle(c1) = c1
            /\ StopChildPgid(c1, g1) = g1

\* C18: a Stop processed by a session without a handle kills nothing and
\* leaves the session as it is, without handle and group id; Stop applied
\* twice gives the state Stop applied once gives, so the Stop of the
\* manager's drop, taken after the Stop of stop_all, has no effect.
C18_StopIdempotent == [][C18_StopStep]_vars /\ []C18_StopTwice

\* After a quit, the Stop of stop_all has been processed and has killed the
\* child; the Stop of the manager's drop waits in the inbox of the idle session.
C18_Witness ==
    /\ pc \in {"drop_sleep", "exit"}
    /\ tuiResult = "ok"
    /\ \E i \in Sessions :
          /\ task[i] = "running"
          /\ spawned[i] >= 1 /\ child[i] = None /\ procs[i] = {}
          /\ inbox[i] = <<"Stop">>

C20_InRange == longPane.offset \in 0 .. U16 - 1

\* The drain subtracts only when the truncated length exceeds the visible
\* height, Up decrements only above 0, Down increments only below 65535:
\* each result is the exact difference or sum, within the u16 range.
C20_Guarded ==
    LET vh == VisibleHeight(GetLayout(1, longPane.height), 1)
        bl == AsU16(longPane'.len)
        o  == longPane.offset
        o2 == longPane'.offset
    IN  /\ longPane'.last = "push" =>
              /\ o2 # o => (bl > vh /\ o2 = bl - vh)
              /\ (bl > vh /\ vh > 0) => (o2 = bl - vh /\ bl - vh \in 0 .. U16 - 1)
        /\ longPane'.last = "up" =>
              (o2 = IF o > 0 THEN o - 1 ELSE o) /\ o2 >= 0
        /\ longPane'.last = "down" =>
              (o2 = o \/ o2 = o + 1) /\ o2 <= U16 - 1

\* C20: the scroll arithmetic stays within u16: the drain's subtraction,
\* Up's decrement and Down's increment are made only when the result lies in
\* 0..65535, also for buffers longer than 65535 lines, whose length is
\* truncated to 16 bits.
C20_NoOverflow == []C20_InRange /\ [][C20_Guarded]_vars

\* A line was pushed to a buffer longer than 65535 lines whose truncated
\* length is below the pane's visible height.
C20_Witness ==
    /\ longPane.last = "push"
    /\ longPane.len > U16 - 1
    /\ AsU16(longPane.len) < VisibleHeight(GetLayout(1, longPane.height), 1)

====
